---- MODULE Spec2Model ----
(***************************************************************************)
(* Othello / Reversi (script.js, first variant: iterative deepening +      *)
(* alpha-beta + transposition table).  Dark (BLACK = 1) is the human,      *)
(* Light (WHITE = -1) is the computer.                                     *)
(*                                                                         *)
(* The rules engine and the search are pure functions of a board and are   *)
(* modelled as operators.  The game loop is a set of async handlers; every *)
(* `await sleep(..)` is a point where the handler is suspended and other   *)
(* handlers run, so a suspended handler is a task record and each action   *)
(* runs one handler from one await to the next.                            *)
(***************************************************************************)
EXTENDS Integers, Sequences, FiniteSets, Bags, TLC

----------------------------------------------------------------------------
(* Program constants                                                       *)

SIZE == 8
BLACK == 1
WHITE == -1
EMPTY == 0

DIRS == << <<-1,-1>>, <<-1,0>>, <<-1,1>>,
           <<0,-1>>,            <<0,1>>,
           <<1,-1>>,  <<1,0>>,  <<1,1>> >>

\* POS_W[r][c] of the source is POS_W[r+1][c+1] here (sequences are 1-based).
POS_W == << <<120,-20, 20,  5,  5, 20,-20,120>>,
            <<-20,-40, -5, -5, -5, -5,-40,-20>>,
            << 20, -5, 15,  3,  3, 15, -5, 20>>,
            <<  5, -5,  3,  3,  3,  3, -5,  5>>,
            <<  5, -5,  3,  3,  3,  3, -5,  5>>,
            << 20, -5, 15,  3,  3, 15, -5, 20>>,
            <<-20,-40, -5, -5, -5, -5,-40,-20>>,
            <<120,-20, 20,  5,  5, 20,-20,120>> >>

\* Infinity of the source; every score is below it in absolute value
\* (terminalScore is at most 64 * 10000).
Infinity == 1000000

Idx == 0 .. (SIZE - 1)
Cells == Idx \X Idx
Colors == {BLACK, WHITE}

\* The cells in the order of the source's nested loops
\* (for r = 0..SIZE-1, for c = 0..SIZE-1).
CellSeq == [i \in 1 .. (SIZE * SIZE) |-> << (i - 1) \div SIZE, (i - 1) % SIZE >>]

----------------------------------------------------------------------------
(* Board model and move generator                                          *)

\* The board of initBoard: empty but for the four centre discs.
StartBoard ==
  LET mid == SIZE \div 2
  IN  [r \in Idx |-> [c \in Idx |->
         IF (r = mid - 1 /\ c = mid - 1) \/ (r = mid /\ c = mid) THEN WHITE
         ELSE IF (r = mid - 1 /\ c = mid) \/ (r = mid /\ c = mid - 1) THEN BLACK
         ELSE EMPTY]]

inBounds(r, c) == r >= 0 /\ r < SIZE /\ c >= 0 /\ c < SIZE

countPieces(b) ==
  [black |-> Cardinality({p \in Cells : b[p[1]][p[2]] = BLACK}),
   white |-> Cardinality({p \in Cells : b[p[1]][p[2]] = WHITE})]

\* The while loop of getFlips: the run of opp discs from (rr,cc) in
\* direction (dr,dc), in the order walked.
RECURSIVE lineFrom(_, _, _, _, _, _)
lineFrom(b, rr, cc, dr, dc, opp) ==
  IF inBounds(rr, cc) /\ b[rr][cc] = opp
  THEN << <<rr, cc>> >> \o lineFrom(b, rr + dr, cc + dc, dr, dc, opp)
  ELSE << >>

\* The loop body without the test of line 146 for the disc that ends the run.
dirFlipsOpen(b, r, c, color, d) ==
  lineFrom(b, r + DIRS[d][1], c + DIRS[d][2], DIRS[d][1], DIRS[d][2], -color)

\* One iteration of getFlips' loop over DIRS: the cells this direction adds.
dirFlips(b, r, c, color, d) ==
  LET dr   == DIRS[d][1]
      dc   == DIRS[d][2]
      line == lineFrom(b, r + dr, c + dc, dr, dc, -color)
      rr   == r + (Len(line) + 1) * dr
      cc   == c + (Len(line) + 1) * dc
  IN  IF Len(line) > 0 /\ inBounds(rr, cc) /\ b[rr][cc] = color
      THEN line ELSE << >>

RECURSIVE flipsUpTo(_, _, _, _, _)
flipsUpTo(b, r, c, color, d) ==
  IF d = 0 THEN << >>
  ELSE flipsUpTo(b, r, c, color, d - 1) \o dirFlips(b, r, c, color, d)

\* getFlips with the last direction of DIRS left out.
getFlipsSeven(b, r, c, color) ==
  IF b[r][c] # EMPTY THEN << >>
  ELSE flipsUpTo(b, r, c, color, Len(DIRS) - 1)

\* getFlips for an in-bounds cell.
getFlips(b, r, c, color) ==
  IF b[r][c] # EMPTY THEN << >>
  ELSE flipsUpTo(b, r, c, color, Len(DIRS))

\* undefined, as the value of an array read outside the array
Undefined == 2

\* b[r][c] for any integers r and c: b[r] is undefined outside 0..SIZE-1, and
\* reading [c] of undefined throws a TypeError.
readCell(b, r, c) ==
  IF r \notin Idx THEN [thrown |-> "TypeError", value |-> Undefined]
  ELSE IF c \notin Idx THEN [thrown |-> "", value |-> Undefined]
  ELSE [thrown |-> "", value |-> b[r][c]]

\* getFlips for any integers r and c, given the outcome of line 135's read.
getFlipsOn(b, r, c, color, cell) ==
  IF cell.thrown # "" THEN [thrown |-> cell.thrown, value |-> << >>]
  ELSE IF cell.value # EMPTY THEN [thrown |-> "", value |-> << >>]
  ELSE [thrown |-> "", value |-> flipsUpTo(b, r, c, color, Len(DIRS))]

getFlipsAnywhere(b, r, c, color) == getFlipsOn(b, r, c, color, readCell(b, r, c))

getValidMoves(b, color) ==
  LET all == [i \in 1 .. (SIZE * SIZE) |->
                [r |-> CellSeq[i][1], c |-> CellSeq[i][2],
                 flips |-> getFlips(b, CellSeq[i][1], CellSeq[i][2], color)]]
  IN  SelectSeq(all, LAMBDA m : Len(m.flips) > 0)

\* A board of the source is an array of row arrays.  heap is the sequence of
\* the row arrays that exist, and a board is the function refs from a row
\* number to the address of its row array; heapOf(b) holds the rows of b at
\* the addresses 1..SIZE and refsOf(base) names SIZE rows stored after base.
heapOf(b) == [a \in 1 .. SIZE |-> b[a - 1]]

refsOf(base) == [r \in Idx |-> base + r + 1]

deref(heap, refs) == [r \in Idx |-> heap[refs[r]]]

\* A clone that is the argument itself: the same row arrays.
cloneBoardShared(heap, refs) == [heap |-> heap, refs |-> refs]

\* b.map(row => row.slice()): a new outer array of new row arrays.
cloneBoard(heap, refs) ==
  [heap |-> heap \o [a \in 1 .. SIZE |-> heap[refs[a - 1]]],
   refs |-> refsOf(Len(heap))]

\* nb[r][c] = color
writeCell(heap, refs, r, c, color) == [heap EXCEPT ![refs[r]][c] = color]

RECURSIVE setCells(_, _, _, _, _)
setCells(heap, refs, cells, i, color) ==
  IF i > Len(cells) THEN heap
  ELSE setCells(writeCell(heap, refs, cells[i][1], cells[i][2], color),
                refs, cells, i + 1, color)

\* Lines 312-315 on the clone cl of the board stored at refsOf(0); the result
\* is the returned board and the argument board as the call leaves it.
applyMoveOnClone(cl, move, color) ==
  [input |-> deref(setCells(writeCell(cl.heap, cl.refs, move.r, move.c, color),
                            cl.refs, move.flips, 1, color), refsOf(0)),
   out   |-> deref(setCells(writeCell(cl.heap, cl.refs, move.r, move.c, color),
                            cl.refs, move.flips, 1, color), cl.refs)]

applyMoveNoAnimHeap(b, move, color) ==
  applyMoveOnClone(cloneBoard(heapOf(b), refsOf(0)), move, color)

applyMoveNoAnim(b, move, color) == applyMoveNoAnimHeap(b, move, color).out

\* null, as a move
NoMove == [r |-> -1, c |-> -1, flips |-> << >>]

\* The loop body of pickBasicMove starting a new pool on a tie as well.
poolStepLast(acc, m) ==
  IF Len(m.flips) >= acc.best THEN [best |-> Len(m.flips), pool |-> << m >>]
  ELSE acc

\* The loop body of pickBasicMove (lines 299-305).
poolStep(acc, m) ==
  IF Len(m.flips) > acc.best THEN [best |-> Len(m.flips), pool |-> << m >>]
  ELSE IF Len(m.flips) = acc.best THEN [acc EXCEPT !.pool = Append(@, m)]
  ELSE acc

\* best and pool after the first n moves.
RECURSIVE poolUpTo(_, _)
poolUpTo(moves, n) ==
  IF n = 0 THEN [best |-> -Infinity, pool |-> << >>]
  ELSE poolStep(poolUpTo(moves, n - 1), moves[n])

\* pickBasicMove when Math.floor(Math.random()*pool.length) is k.
pickBasicMove(moves, k) == poolUpTo(moves, Len(moves)).pool[k + 1]

\* The moves pickBasicMove can return: Math.random() is any number in [0, 1),
\* so k is any index of the pool.
basicPool(moves) ==
  {pickBasicMove(moves, k) : k \in 0..(Len(poolUpTo(moves, Len(moves)).pool) - 1)}

----------------------------------------------------------------------------
(* Evaluator                                                               *)

RECURSIVE sumTo(_, _)
sumTo(f, n) == IF n = 0 THEN 0 ELSE sumTo(f, n - 1) + f[n]

\* Sum of f(r, c) over the cells, as the nested loops over r and c.
sumCells(f(_, _)) ==
  sumTo([i \in 1 .. SIZE |->
           sumTo([j \in 1 .. SIZE |-> f(i - 1, j - 1)], SIZE)], SIZE)

\* A disc with an empty in-bounds neighbour in one of the 8 directions.
isFrontier(b, r, c) ==
  \E d \in 1 .. Len(DIRS) :
     /\ inBounds(r + DIRS[d][1], c + DIRS[d][2])
     /\ b[r + DIRS[d][1]][c + DIRS[d][2]] = EMPTY

corners == << <<0,0>>, <<0,7>>, <<7,0>>, <<7,7>> >>
xSquares == << <<1,1>>, <<1,6>>, <<6,1>>, <<6,6>> >>
cSquares == << <<0,1>>, <<1,0>>, <<0,6>>, <<1,7>>, <<6,0>>, <<7,1>>, <<6,7>>, <<7,6>> >>

\* An X-square taken to answer for the corner across the board.
xToCornerAcross(r, c) ==
  IF r = 1 /\ c = 1 THEN <<7,7>>
  ELSE IF r = 1 /\ c = 6 THEN <<7,0>>
  ELSE IF r = 6 /\ c = 1 THEN <<0,7>>
  ELSE <<0,0>>

xToCorner(r, c) ==
  IF r = 1 /\ c = 1 THEN <<0,0>>
  ELSE IF r = 1 /\ c = 6 THEN <<0,7>>
  ELSE IF r = 6 /\ c = 1 THEN <<7,0>>
  ELSE <<7,7>>

cToCorner(r, c) ==
  IF r = 0 /\ c = 1 THEN <<0,0>>
  ELSE IF r = 1 /\ c = 0 THEN <<0,0>>
  ELSE IF r = 0 /\ c = 6 THEN <<0,7>>
  ELSE IF r = 1 /\ c = 7 THEN <<0,7>>
  ELSE IF r = 6 /\ c = 0 THEN <<7,0>>
  ELSE IF r = 7 /\ c = 1 THEN <<7,0>>
  ELSE IF r = 6 /\ c = 7 THEN <<7,7>>
  ELSE <<7,7>>

\* White-positive static score.
evaluateBoard(b) ==
  LET sgn(v) == IF v = WHITE THEN 1 ELSE -1
      pos == sumCells(LAMBDA r, c :
               IF b[r][c] = EMPTY THEN 0 ELSE sgn(b[r][c]) * POS_W[r + 1][c + 1])
      discDiff == sumCells(LAMBDA r, c :
               IF b[r][c] = EMPTY THEN 0 ELSE sgn(b[r][c]))
      empty == sumCells(LAMBDA r, c : IF b[r][c] = EMPTY THEN 1 ELSE 0)
      mW == Len(getValidMoves(b, WHITE))
      mB == Len(getValidMoves(b, BLACK))
      mobility == 10 * (mW - mB)
      fW == sumCells(LAMBDA r, c :
               IF b[r][c] = WHITE /\ isFrontier(b, r, c) THEN 1 ELSE 0)
      fB == sumCells(LAMBDA r, c :
               IF b[r][c] # EMPTY /\ b[r][c] # WHITE /\ isFrontier(b, r, c) THEN 1 ELSE 0)
      frontierScore == -6 * (fW - fB)
      cornerScore == sumTo([i \in 1 .. Len(corners) |->
               IF b[corners[i][1]][corners[i][2]] = WHITE THEN 120
               ELSE IF b[corners[i][1]][corners[i][2]] = BLACK THEN -120
               ELSE 0], Len(corners))
      cornerEmpty(p) == b[p[1]][p[2]] = EMPTY
      xs == sumTo([i \in 1 .. Len(xSquares) |->
               LET r == xSquares[i][1]
                   c == xSquares[i][2]
               IN  IF ~cornerEmpty(xToCorner(r, c)) THEN 0
                   ELSE IF b[r][c] = WHITE THEN -80
                   ELSE IF b[r][c] = BLACK THEN 80
                   ELSE 0], Len(xSquares))
      cs == sumTo([i \in 1 .. Len(cSquares) |->
               LET r == cSquares[i][1]
                   c == cSquares[i][2]
               IN  IF ~cornerEmpty(cToCorner(r, c)) THEN 0
                   ELSE IF b[r][c] = WHITE THEN -30
                   ELSE IF b[r][c] = BLACK THEN 30
                   ELSE 0], Len(cSquares))
      discWeight == IF empty <= 16 THEN 14 ELSE IF empty <= 28 THEN 6 ELSE 2
      discScore == discWeight * discDiff
  IN  pos + mobility + frontierScore + cornerScore + xs + cs + discScore

terminalScore(b) == (countPieces(b).white - countPieces(b).black) * 10000

----------------------------------------------------------------------------
(* Zobrist hasher.  A BigInt is modelled as the set of the positions of    *)
(* its one-bits, so ^ is the symmetric difference, << and >> shift the     *)
(* positions, and & ((1n<<64n)-1n) keeps the positions below 64.           *)

xor(x, y) == {i \in x \cup y : (i \in x) # (i \in y)}
shl(x, k) == {i + k : i \in x}
shr(x, k) == {i - k : i \in {j \in x : j >= k}}
mask64(x) == {i \in x : i < 64}

\* 0x1234567890ABCDEF, most significant hex digit first
seedHex == <<1, 2, 3, 4, 5, 6, 7, 8, 9, 0, 10, 11, 12, 13, 14, 15>>
seedBits ==
  UNION {{4 * (Len(seedHex) - k) + j : j \in {i \in 0 .. 3 : (seedHex[k] \div (2 ^ i)) % 2 = 1}}
           : k \in 1 .. Len(seedHex)}

\* rand64: the new seedObj.x (not truncated); the value returned is mask64 of it.
rand64(x) ==
  LET x1 == xor(x, shl(x, 13))
      x2 == xor(x1, shr(x1, 7))
  IN  xor(x2, shl(x2, 17))

\* initZobrist: the stream's outputs in call order; ZOBRIST[r][c][k] of the
\* source (k = 0 BLACK, 1 WHITE) is the output number 2*(r*SIZE + c) + k + 1.
RECURSIVE zobristStream(_, _)
zobristStream(x, n) ==
  IF n = 0 THEN << >>
  ELSE LET y == rand64(x) IN << mask64(y) >> \o zobristStream(y, n - 1)

ZOBRIST == zobristStream(seedBits, 2 * SIZE * SIZE)

\* The inner loop of hashBoard: the xor of the table entries of the discs of
\* row r in columns 0 .. c-1.
RECURSIVE hashRow(_, _, _)
hashRow(b, r, c) ==
  IF c = 0 THEN {}
  ELSE LET v == b[r][c - 1]
       IN  IF v = BLACK
           THEN xor(hashRow(b, r, c - 1), ZOBRIST[2 * (r * SIZE + c - 1) + 1])
           ELSE IF v = WHITE
           THEN xor(hashRow(b, r, c - 1), ZOBRIST[2 * (r * SIZE + c - 1) + 2])
           ELSE hashRow(b, r, c - 1)

\* The outer loop of hashBoard: rows 0 .. r-1 (xor is associative, so the
\* running h of the source is the xor of the rows' contributions).
RECURSIVE hashRows(_, _)
hashRows(b, r) ==
  IF r = 0 THEN {} ELSE xor(hashRows(b, r - 1), hashRow(b, r - 1, SIZE))

hashBoard(b) == hashRows(b, SIZE)

----------------------------------------------------------------------------
(* Search engine                                                           *)

EXACT == 0
LOWER == 1
UPPER == 2

max(a, b) == IF a >= b THEN a ELSE b
min(a, b) == IF a <= b THEN a ELSE b

isCorner(m) == (m.r = 0 \/ m.r = 7) /\ (m.c = 0 \/ m.c = 7)

\* The comparator of orderMoves: negative when a sorts before b.
orderCmp(a, b) ==
  IF isCorner(a) # isCorner(b)
  THEN (IF isCorner(b) THEN 1 ELSE 0) - (IF isCorner(a) THEN 1 ELSE 0)
  ELSE (POS_W[b.r + 1][b.c + 1] + Len(b.flips) * 2)
       - (POS_W[a.r + 1][a.c + 1] + Len(a.flips) * 2)

\* Array.prototype.sort is stable: m goes behind every element it does not
\* strictly precede.
RECURSIVE insertOrdered(_, _)
insertOrdered(sorted, m) ==
  IF sorted = << >> THEN << m >>
  ELSE IF orderCmp(m, sorted[1]) < 0 THEN << m >> \o sorted
  ELSE << sorted[1] >> \o insertOrdered(Tail(sorted), m)

RECURSIVE sortUpTo(_, _)
sortUpTo(moves, n) ==
  IF n = 0 THEN << >> ELSE insertOrdered(sortUpTo(moves, n - 1), moves[n])

orderMoves(moves) == sortUpTo(moves, Len(moves))

\* The search reads the clock once per node.  cx.n is the number of reads
\* that still find performance.now() <= deadline (the clock is monotonic, so
\* every later read finds the deadline passed); -1 stands for a deadline
\* that is never reached.  cx.tt is the transposition table TT.
\* cx.seen lists, for every call that found the deadline passed, the table
\* as that call found it; cx.used lists the table entries that line 451
\* accepted, each with the node that read it and with ret telling whether
\* the node returned the entry (lines 452, 455); cx.order names the order in
\* which a node's moves are expanded: "source" is the order of orderMoves,
\* which is the order the program uses.
Cx(tt, n) == [tt |-> tt, n |-> n, seen |-> << >>, used |-> << >>, order |-> "source"]

\* The table and the clock as a call left them.
rest(res) ==
  [tt |-> res.tt, n |-> res.n, seen |-> res.seen, used |-> res.used,
   order |-> res.order]

Reverse(s) == [i \in 1..Len(s) |-> s[Len(s) + 1 - i]]

expandOrder(cx, moves) ==
  IF cx.order = "source" THEN orderMoves(moves)
  ELSE IF cx.order = "reversed" THEN Reverse(orderMoves(moves))
  ELSE moves

expired(cx) == cx.n = 0
tick(cx) == [cx EXCEPT !.n = IF cx.n > 0 THEN cx.n - 1 ELSE cx.n]

\* TT.set(h, e)
ttSet(tt, h, e) == (h :> e) @@ tt

\* const isTerminal = (moves.length===0 && oppMoves.length===0)
isTerminal(moves, oppMoves) == Len(moves) = 0 /\ Len(oppMoves) = 0

\* The TT flag of a node's result, from the window the node was called with.
ttFlag(bestScore, alphaOrig, betaOrig) ==
  IF bestScore <= alphaOrig THEN UPPER
  ELSE IF bestScore >= betaOrig THEN LOWER
  ELSE EXACT

\* A return value of minimaxTT, with the table and the clock as the call
\* leaves them.  via names the return statement: "abort" (428), "terminal"
\* (435), "leaf" (438), "tt" (452, 455), "childAbort" (467), "loop" (487).
result(score, move, aborted, cx, via) ==
  [score |-> score, move |-> move, aborted |-> aborted, tt |-> cx.tt, n |-> cx.n,
   seen |-> cx.seen, used |-> cx.used, order |-> cx.order,
   via |-> via]

RECURSIVE minimaxTT(_, _, _, _, _, _)
RECURSIVE moveLoop(_, _, _, _, _, _, _, _, _, _)

\* Lines 470-476: the best score and move after a child scored sc.
pickScore(color, sc, bestScore) ==
  IF color = WHITE
  THEN (IF sc > bestScore THEN sc ELSE bestScore)
  ELSE (IF sc < bestScore THEN sc ELSE bestScore)

pickMove(color, sc, bestScore, m, bestMove) ==
  IF color = WHITE
  THEN (IF sc > bestScore THEN m ELSE bestMove)
  ELSE (IF sc < bestScore THEN m ELSE bestMove)

\* Line 477: cut off, or go on with the next move.
cutOrNext(b, color, depth, ordered, i, alpha, beta, bestScore, bestMove, cx) ==
  IF beta <= alpha THEN result(bestScore, bestMove, FALSE, cx, "loop")
  ELSE moveLoop(b, color, depth, ordered, i + 1, alpha, beta, bestScore, bestMove, cx)

\* The loop going on after a child that reported the deadline.
afterChildGoesOn(b, color, depth, ordered, i, alpha, beta, bestScore, bestMove, m, res) ==
  cutOrNext(b, color, depth, ordered, i,
            IF color = WHITE
            THEN max(alpha, pickScore(color, res.score, bestScore)) ELSE alpha,
            IF color = WHITE
            THEN beta ELSE min(beta, pickScore(color, res.score, bestScore)),
            pickScore(color, res.score, bestScore),
            pickMove(color, res.score, bestScore, m, bestMove),
            rest(res))

\* Lines 467-477 for the result res of the child reached by move m.
afterChild(b, color, depth, ordered, i, alpha, beta, bestScore, bestMove, m, res) ==
  IF res.aborted
  THEN result(bestScore, bestMove, TRUE, rest(res), "childAbort")
  ELSE cutOrNext(b, color, depth, ordered, i,
                 IF color = WHITE
                 THEN max(alpha, pickScore(color, res.score, bestScore)) ELSE alpha,
                 IF color = WHITE
                 THEN beta ELSE min(beta, pickScore(color, res.score, bestScore)),
                 pickScore(color, res.score, bestScore),
                 pickMove(color, res.score, bestScore, m, bestMove),
                 rest(res))

\* The for loop of minimaxTT over the ordered moves, from the i-th on.
moveLoop(b, color, depth, ordered, i, alpha, beta, bestScore, bestMove, cx) ==
  IF i > Len(ordered) THEN result(bestScore, bestMove, FALSE, cx, "loop")
  ELSE afterChild(b, color, depth, ordered, i, alpha, beta, bestScore, bestMove,
                  ordered[i],
                  minimaxTT(applyMoveNoAnim(b, ordered[i], color), -color,
                            depth - 1, alpha, beta, cx))

\* Lines 480-487: a completed loop stores its result under the board's hash.
store(res, h, depth, alphaOrig, betaOrig) ==
  IF res.aborted THEN res
  ELSE [res EXCEPT !.tt =
          ttSet(res.tt, h,
                [depth |-> depth, score |-> res.score,
                 flag |-> ttFlag(res.score, alphaOrig, betaOrig),
                 bestMove |-> res.move])]

\* Lines 458-487 with the window (alpha, beta) the table left.
searchMoves(b, color, depth, alphaOrig, betaOrig, alpha, beta, cx, moves, h) ==
  store(moveLoop(b, color, depth, expandOrder(cx, moves), 1, alpha, beta,
                 IF color = WHITE THEN -Infinity ELSE Infinity, NoMove, cx),
        h, depth, alphaOrig, betaOrig)

\* The node (b, color, depth) accepts the entry under h at line 451.
reading(cx, b, color, depth, h) ==
  [cx EXCEPT !.used = Append(@, [b |-> b, color |-> color, depth |-> depth,
                                 e |-> cx.tt[h], ret |-> FALSE])]

\* Lines 452 and 455: the node returns the entry it has just read.
fromEntry(e, cx) ==
  result(e.score, e.bestMove, FALSE, [cx EXCEPT !.used[Len(cx.used)].ret = TRUE], "tt")

\* Line 455.
narrowed(b, color, depth, alphaOrig, betaOrig, alpha, beta, cx, moves, h, e) ==
  IF alpha >= beta THEN fromEntry(e, cx)
  ELSE searchMoves(b, color, depth, alphaOrig, betaOrig, alpha, beta, cx, moves, h)

\* Lines 452-455 for a table entry e that is deep enough.
withEntry(b, color, depth, alpha, beta, cx, moves, h, e) ==
  IF e.flag = EXACT THEN fromEntry(e, cx)
  ELSE narrowed(b, color, depth, alpha, beta,
                IF e.flag = LOWER THEN max(alpha, e.score) ELSE alpha,
                IF e.flag = UPPER THEN min(beta, e.score) ELSE beta,
                cx, moves, h, e)

\* Lines 449-451: the table is keyed by hashBoard(b) alone.
probe(b, color, depth, alpha, beta, cx, moves, h) ==
  IF h \in DOMAIN cx.tt /\ cx.tt[h].depth >= depth
  THEN withEntry(b, color, depth, alpha, beta, reading(cx, b, color, depth, h),
                 moves, h, cx.tt[h])
  ELSE searchMoves(b, color, depth, alpha, beta, alpha, beta, cx, moves, h)

\* A pass that costs two plies.
passOnTwice(b, color, depth, alpha, beta, cx) ==
  minimaxTT(b, -color, depth - 2, alpha, beta, cx)

\* Line 443.
passOn(b, color, depth, alpha, beta, cx) ==
  minimaxTT(b, -color, depth - 1, alpha, beta, cx)

\* The depth test made before the test for the end of the game.
nodeLeafFirst(b, color, depth, alpha, beta, cx, moves, oppMoves) ==
  IF depth = 0
  THEN result(evaluateBoard(b), NoMove, FALSE, cx, "leaf")
  ELSE IF isTerminal(moves, oppMoves)
  THEN result(terminalScore(b), NoMove, FALSE, cx, "terminal")
  ELSE IF Len(moves) = 0
  THEN passOn(b, color, depth, alpha, beta, cx)
  ELSE probe(b, color, depth, alpha, beta, cx, moves, hashBoard(b))

\* Lines 431-449 once the clock has been read.
node(b, color, depth, alpha, beta, cx, moves, oppMoves) ==
  IF isTerminal(moves, oppMoves)
  THEN result(terminalScore(b), NoMove, FALSE, cx, "terminal")
  ELSE IF depth = 0
  THEN result(evaluateBoard(b), NoMove, FALSE, cx, "leaf")
  ELSE IF Len(moves) = 0
  THEN passOn(b, color, depth, alpha, beta, cx)
  ELSE probe(b, color, depth, alpha, beta, cx, moves, hashBoard(b))

minimaxTT(b, color, depth, alpha, beta, cx) ==
  IF expired(cx)
  THEN result(evaluateBoard(b), NoMove, TRUE, [cx EXCEPT !.seen = Append(@, cx.tt)], "abort")
  ELSE node(b, color, depth, alpha, beta, tick(cx),
            getValidMoves(b, color), getValidMoves(b, -color))

\* ---------------------------------------------------------------------------
\* Positions of real games.  Each line is a sequence of moves <<r, c>> played
\* from the starting position, Dark first, sides alternating, every Light
\* move one that pickBasicMove can return; the rows are the position the line
\* leads to (SpecLines below replays the lines move by move).
\* ---------------------------------------------------------------------------
Range(s) == {s[i] : i \in DOMAIN s}

\* The board written row by row.
FromRows(rows) == [r \in Idx |-> [c \in Idx |-> rows[r + 1][c + 1]]]

\* After Dark (6,6) neither side can move, with 49 cells empty.
LineOverByDark ==
  <<<<2,3>>, <<2,2>>, <<2,1>>, <<4,2>>, <<5,4>>, <<1,1>>, <<4,1>>, <<3,1>>,
    <<0,1>>, <<5,5>>>>
RowsOverByDark ==
  <<<< 0,  1,  0,  0,  0,  0,  0,  0>>,
    << 0,  1,  0,  0,  0,  0,  0,  0>>,
    << 0,  1, -1,  1,  0,  0,  0,  0>>,
    << 0,  1,  0, -1,  1,  0,  0,  0>>,
    << 0,  1,  1,  1, -1,  0,  0,  0>>,
    << 0,  0,  0,  0,  1, -1,  0,  0>>,
    << 0,  0,  0,  0,  0,  0,  0,  0>>,
    << 0,  0,  0,  0,  0,  0,  0,  0>>>>
\* After Dark (1,3) Light's only greedy move (0,3) ends the game.
LineOverByLight ==
  <<<<2,3>>, <<2,2>>, <<5,4>>, <<2,4>>, <<3,2>>, <<6,4>>, <<1,2>>, <<2,1>>>>
RowsOverByLight ==
  <<<< 0,  0,  0,  0,  0,  0,  0,  0>>,
    << 0,  0,  1,  0,  0,  0,  0,  0>>,
    << 0, -1, -1, -1, -1,  0,  0,  0>>,
    << 0,  0, -1,  1, -1,  0,  0,  0>>,
    << 0,  0,  0, -1, -1,  0,  0,  0>>,
    << 0,  0,  0,  0, -1,  0,  0,  0>>,
    << 0,  0,  0,  0, -1,  0,  0,  0>>,
    << 0,  0,  0,  0,  0,  0,  0,  0>>>>
\* After Dark (0,5) Light has no move and Dark has four.
LineLightPass ==
  <<<<2,3>>, <<2,2>>, <<3,2>>, <<2,4>>, <<2,5>>, <<4,2>>, <<1,4>>, <<0,4>>,
    <<0,3>>, <<1,6>>>>
RowsLightPass ==
  <<<< 0,  0,  0,  1, -1,  0,  0,  0>>,
    << 0,  0,  0,  0,  1,  0, -1,  0>>,
    << 0,  0, -1, -1, -1, -1,  0,  0>>,
    << 0,  0, -1, -1, -1,  0,  0,  0>>,
    << 0,  0, -1, -1, -1,  0,  0,  0>>,
    << 0,  0,  0,  0,  0,  0,  0,  0>>,
    << 0,  0,  0,  0,  0,  0,  0,  0>>,
    << 0,  0,  0,  0,  0,  0,  0,  0>>>>
\* After Dark (7,3) and Light (0,2) Dark has no move and Light has two.
LineDarkPass ==
  <<<<2,3>>, <<2,2>>, <<2,1>>, <<1,3>>, <<0,3>>, <<1,1>>, <<5,4>>, <<5,3>>,
    <<6,2>>, <<0,4>>, <<0,0>>, <<6,3>>>>
RowsDarkPass ==
  <<<< 1,  0,  0,  1, -1,  0,  0,  0>>,
    << 0,  1,  0, -1,  0,  0,  0,  0>>,
    << 0,  1,  1,  1,  0,  0,  0,  0>>,
    << 0,  0,  0,  1,  1,  0,  0,  0>>,
    << 0,  0,  0, -1,  1,  0,  0,  0>>,
    << 0,  0,  0, -1,  1,  0,  0,  0>>,
    << 0,  0,  1, -1,  0,  0,  0,  0>>,
    << 0,  0,  0,  0,  0,  0,  0,  0>>>>
\* Dark has opened with (2,3) and the computer is about to answer.
LineOpening == <<<<2,3>>>>
RowsOpening ==
  <<<< 0,  0,  0,  0,  0,  0,  0,  0>>,
    << 0,  0,  0,  0,  0,  0,  0,  0>>,
    << 0,  0,  0,  1,  0,  0,  0,  0>>,
    << 0,  0,  0,  1,  1,  0,  0,  0>>,
    << 0,  0,  0,  1, -1,  0,  0,  0>>,
    << 0,  0,  0,  0,  0,  0,  0,  0>>,
    << 0,  0,  0,  0,  0,  0,  0,  0>>,
    << 0,  0,  0,  0,  0,  0,  0,  0>>>>
RowsStart ==
  <<<< 0,  0,  0,  0,  0,  0,  0,  0>>,
    << 0,  0,  0,  0,  0,  0,  0,  0>>,
    << 0,  0,  0,  0,  0,  0,  0,  0>>,
    << 0,  0,  0, -1,  1,  0,  0,  0>>,
    << 0,  0,  0,  1, -1,  0,  0,  0>>,
    << 0,  0,  0,  0,  0,  0,  0,  0>>,
    << 0,  0,  0,  0,  0,  0,  0,  0>>,
    << 0,  0,  0,  0,  0,  0,  0,  0>>>>

Lines ==
  <<<< >>, LineOpening, LineOverByDark, LineOverByLight, LineLightPass, LineDarkPass>>

\* The position each line leads to.
Rows ==
  <<RowsStart, RowsOpening, RowsOverByDark, RowsOverByLight, RowsLightPass, RowsDarkPass>>

\* Three endgames, Light to move after Dark's last move of the line.
\* Five cells empty; Light's only move is (2,0).
LineEndA ==
  <<<<2,3>>, <<2,4>>, <<5,5>>, <<5,2>>, <<2,5>>, <<1,3>>, <<2,2>>, <<1,2>>,
    <<4,2>>, <<3,2>>, <<1,1>>, <<1,5>>, <<0,5>>, <<5,4>>, <<0,2>>, <<1,0>>,
    <<5,1>>, <<2,6>>, <<3,5>>, <<3,6>>, <<4,7>>, <<6,0>>, <<6,1>>, <<1,4>>,
    <<4,1>>, <<6,2>>, <<6,5>>, <<7,6>>, <<4,5>>, <<1,6>>, <<6,4>>, <<4,6>>,
    <<7,5>>, <<7,4>>, <<0,3>>, <<4,0>>, <<3,1>>, <<2,1>>, <<7,3>>, <<3,7>>,
    <<7,0>>, <<5,3>>, <<7,2>>, <<7,1>>, <<5,6>>, <<6,6>>, <<5,7>>, <<0,4>>,
    <<2,7>>, <<0,6>>, <<5,0>>, <<6,3>>, <<0,0>>, <<0,1>>, <<3,0>>>>
RowsEndA ==
  <<<< 1, -1, -1, -1, -1, -1, -1,  0>>,
    <<-1, -1, -1, -1, -1, -1, -1,  0>>,
    << 0, -1,  1, -1, -1,  1, -1,  1>>,
    << 1,  1,  1,  1, -1,  1, -1,  1>>,
    << 1,  1,  1, -1,  1, -1, -1,  1>>,
    << 1,  1,  1, -1, -1,  1, -1,  1>>,
    << 1, -1, -1, -1, -1, -1, -1,  0>>,
    << 1, -1, -1, -1, -1, -1, -1,  0>>>>
\* Three cells empty; Light can play (2,6), flipping five, or (6,6).
LineEndB ==
  <<<<3,2>>, <<2,2>>, <<4,5>>, <<3,1>>, <<1,1>>, <<3,5>>, <<2,5>>, <<3,6>>,
    <<4,2>>, <<5,3>>, <<5,2>>, <<4,1>>, <<5,5>>, <<2,3>>, <<1,2>>, <<1,4>>,
    <<2,7>>, <<0,2>>, <<5,4>>, <<6,2>>, <<3,0>>, <<5,6>>, <<6,3>>, <<7,3>>,
    <<7,4>>, <<2,0>>, <<7,2>>, <<5,1>>, <<5,7>>, <<6,5>>, <<1,0>>, <<4,7>>,
    <<3,7>>, <<2,4>>, <<4,0>>, <<6,1>>, <<5,0>>, <<7,1>>, <<0,0>>, <<6,4>>,
    <<6,0>>, <<7,5>>, <<1,5>>, <<0,5>>, <<7,0>>, <<1,3>>, <<0,1>>, <<4,6>>,
    <<0,6>>, <<6,7>>, <<7,6>>, <<1,7>>, <<2,1>>, <<0,7>>, <<0,4>>, <<0,3>>,
    <<1,6>>>>
RowsEndB ==
  <<<< 1,  1, -1, -1, -1, -1, -1, -1>>,
    << 1,  1,  1, -1, -1,  1,  1, -1>>,
    << 1,  1,  1, -1,  1,  1,  0, -1>>,
    << 1,  1,  1, -1,  1, -1,  1, -1>>,
    << 1,  1,  1, -1, -1, -1, -1, -1>>,
    << 1,  1,  1, -1,  1, -1, -1, -1>>,
    << 1,  1, -1, -1, -1,  1,  0, -1>>,
    << 1,  1,  1,  1,  1,  1,  1,  0>>>>
\* Three cells empty; Light can play (0,6) or (1,7), each flipping two.
LineEndC ==
  <<<<3,2>>, <<2,2>>, <<4,5>>, <<5,5>>, <<2,3>>, <<4,2>>, <<3,1>>, <<2,4>>,
    <<1,2>>, <<0,2>>, <<5,4>>, <<5,6>>, <<1,3>>, <<6,4>>, <<1,1>>, <<2,0>>,
    <<5,2>>, <<6,2>>, <<5,3>>, <<1,4>>, <<5,7>>, <<6,3>>, <<0,0>>, <<3,5>>,
    <<0,3>>, <<0,4>>, <<0,1>>, <<1,0>>, <<5,1>>, <<6,0>>, <<7,2>>, <<7,3>>,
    <<4,1>>, <<5,0>>, <<0,5>>, <<6,5>>, <<4,0>>, <<3,0>>, <<2,1>>, <<7,1>>,
    <<7,0>>, <<6,1>>, <<7,4>>, <<6,6>>, <<7,5>>, <<6,7>>, <<2,5>>, <<2,6>>,
    <<4,7>>, <<3,6>>, <<2,7>>, <<3,7>>, <<7,7>>, <<1,6>>, <<4,6>>, <<7,6>>,
    <<1,5>>>>
RowsEndC ==
  <<<< 1,  1,  1,  1,  1,  1,  0,  0>>,
    << 1,  1,  1,  1,  1,  1, -1,  0>>,
    << 1,  1,  1,  1,  1,  1,  1,  1>>,
    << 1,  1, -1, -1, -1,  1, -1,  1>>,
    << 1,  1,  1, -1, -1,  1, -1,  1>>,
    << 1, -1,  1, -1, -1,  1, -1,  1>>,
    << 1, -1, -1,  1,  1, -1, -1,  1>>,
    << 1,  1,  1,  1,  1,  1, -1,  1>>>>

\* Three cells empty; Light's only move is (1,7), Dark then has to pass and
\* Light ends the game with (7,7).
LineEndD ==
  <<<<3,2>>, <<2,4>>, <<1,5>>, <<3,1>>, <<4,2>>, <<4,1>>, <<5,4>>, <<0,6>>,
    <<1,4>>, <<5,5>>, <<5,6>>, <<0,4>>, <<2,1>>, <<2,3>>, <<4,5>>, <<4,6>>,
    <<3,5>>, <<6,4>>, <<1,2>>, <<2,5>>, <<5,1>>, <<0,1>>, <<6,5>>, <<3,0>>,
    <<3,6>>, <<7,6>>, <<1,3>>, <<4,7>>, <<5,3>>, <<2,2>>, <<3,7>>, <<5,2>>,
    <<7,3>>, <<2,6>>, <<7,5>>, <<7,4>>, <<1,1>>, <<6,1>>, <<5,7>>, <<6,6>>,
    <<0,2>>, <<0,3>>, <<4,0>>, <<5,0>>, <<1,0>>, <<2,0>>, <<6,3>>, <<7,2>>,
    <<0,5>>, <<6,2>>, <<2,7>>, <<1,6>>, <<7,0>>, <<6,0>>, <<0,7>>, <<0,0>>,
    <<6,7>>>>
RowsEndD ==
  <<<<-1, -1, -1, -1, -1,  1,  1,  1>>,
    <<-1, -1, -1, -1, -1, -1,  1,  0>>,
    <<-1, -1, -1,  1,  1,  1, -1,  1>>,
    <<-1, -1,  1, -1,  1, -1, -1,  1>>,
    <<-1, -1,  1,  1, -1,  1,  1,  1>>,
    <<-1, -1,  1, -1, -1, -1,  1,  1>>,
    <<-1, -1, -1, -1, -1, -1, -1,  1>>,
    << 1,  0, -1, -1, -1, -1, -1,  0>>>>
EndLines == <<LineEndA, LineEndB, LineEndC, LineEndD>>

EndRows == <<RowsEndA, RowsEndB, RowsEndC, RowsEndD>>

AllLines == Lines \o EndLines

AllRows == Rows \o EndRows

\* The side to move after a line, and the message on the page: the last move
\* played (lines 278 and 545).
lineSide(line) == IF Len(line) % 2 = 0 THEN BLACK ELSE WHITE

lineText(line) ==
  IF Len(line) = 0 THEN << >>
  ELSE <<IF lineSide(line) = BLACK THEN "cpu" ELSE "you",
         line[Len(line)][1], line[Len(line)][2]>>

\* ---------------------------------------------------------------------------
\* The page: globals (src/script.js 52-61), the difficulty selector, and the
\* suspended async calls.  tasks is the bag of call chains waiting on a sleep()
\* timer, each at one of:
\*   pc "placed"   applyMoveAnimated at line 222 (the disc is on the board)
\*   pc "flipA"    applyMoveAnimated at line 232, before flip number i
\*   pc "flipB"    applyMoveAnimated at lines 236-237, after flip number i
\*   pc "passWait" passTurnIfNoMoves at line 266
\*   pc "aiWait"   computerMove at line 499
\* owner is the function that awaits the sleeping call ("click" for
\* onCellClick, "cpu" for computerMove) and ret tells a passWait where its
\* owner continues ("after": lines 287/557, "end": line 509).
\* ev describes the step that led to the state (it is not program state).
\* ---------------------------------------------------------------------------
VARIABLES board, current, inputLocked, aiThinking, lastMoveText, difficulty,
          TT, tasks, ev, nClicks, nRestarts, nChanges

vars == <<board, current, inputLocked, aiThinking, lastMoveText, difficulty,
          TT, tasks, ev, nClicks, nRestarts, nChanges>>

MaxClicks == 1
MaxRestarts == 1
MaxChanges == 1
MaxNodes == 6

Task(pc, owner, color, flips, i, ret) ==
  [pc |-> pc, owner |-> owner, color |-> color, flips |-> flips, i |-> i, ret |-> ret]

NoLog == << >>

\* What the last step did: b0 is the board it started from, and b1 the
\* board it handed to applyMoveNoAnim as that call left it; for a move of the
\* advanced tier, n is the deadline, ttIn the table found at line 518, tt0 the
\* table the first iteration started with and log the iterations' results;
\* for a single call of minimaxTT, call holds its arguments and res what it
\* returned.
NoCall == [depth |-> 0, alpha |-> 0, beta |-> 0, n |-> 0]
NoRes == result(0, NoMove, FALSE, Cx(<< >>, 0), "")

Ev(kind, color, b0, chosen) ==
  [kind |-> kind, color |-> color, b0 |-> b0, b1 |-> b0, chosen |-> chosen,
   advanced |-> FALSE, n |-> -1, log |-> NoLog, ttIn |-> << >>, tt0 |-> << >>,
   call |-> NoCall, res |-> NoRes,
   thrown |-> "", checked |-> FALSE, over |-> FALSE,
   passed |-> FALSE, started |-> FALSE]

\* The globals a handler works on, with three flags recording what it did:
\* checked/over - gameOverIfNeeded was called / returned true;
\* passed - passTurnIfNoMoves passed the turn; started - computerMove passed
\* its guards.
Globals ==
  [board |-> board, current |-> current, inputLocked |-> inputLocked,
   aiThinking |-> aiThinking, lastMoveText |-> lastMoveText, tasks |-> tasks,
   checked |-> FALSE, over |-> FALSE, passed |-> FALSE, started |-> FALSE]

\* gameOverIfNeeded declaring the game over as soon as one side cannot move.
gameOverIfEither(g) ==
  IF Len(getValidMoves(g.board, BLACK)) = 0 \/ Len(getValidMoves(g.board, WHITE)) = 0
  THEN [g EXCEPT !.lastMoveText = <<"over", countPieces(g.board).black,
                                    countPieces(g.board).white>>,
                 !.checked = TRUE, !.over = TRUE]
  ELSE [g EXCEPT !.checked = TRUE]

gameOverIfNeeded(g) ==
  LET bMoves == Len(getValidMoves(g.board, BLACK))
      wMoves == Len(getValidMoves(g.board, WHITE))
      cnt    == countPieces(g.board)
  IN  IF bMoves = 0 /\ wMoves = 0
      THEN [g EXCEPT !.lastMoveText = <<"over", cnt.black, cnt.white>>,
                     !.checked = TRUE, !.over = TRUE]
      ELSE [g EXCEPT !.checked = TRUE]

\* passTurnIfNoMoves announcing the pass without handing the turn over.
passTurnKeepsSide(g, owner, ret) ==
  IF Len(getValidMoves(g.board, g.current)) = 0
  THEN [g EXCEPT !.lastMoveText = <<"pass", g.current>>,
                 !.tasks = @ (+) SetToBag({Task("passWait", owner, g.current, << >>, 0, ret)}),
                 !.passed = TRUE]
  ELSE g

\* passTurnIfNoMoves up to its sleep (lines 261-266).
passTurnIfNoMoves(g, owner, ret) ==
  IF Len(getValidMoves(g.board, g.current)) = 0
  THEN [g EXCEPT !.lastMoveText = <<"pass", g.current>>,
                 !.current = -g.current,
                 !.tasks = @ (+) SetToBag({Task("passWait", owner, g.current, << >>, 0, ret)}),
                 !.passed = TRUE]
  ELSE g

\* computerMove up to its sleep (lines 491-499).
computerMove(g) ==
  IF g.inputLocked \/ g.current # WHITE THEN g
  ELSE [g EXCEPT !.aiThinking = TRUE, !.inputLocked = TRUE,
                 !.tasks = @ (+) SetToBag({Task("aiWait", "cpu", WHITE, << >>, 0, "")}),
                 !.started = TRUE]

\* The handlers ending without the call of computerMove.
afterPassIdle(g) == gameOverIfNeeded(g)

\* onCellClick 287-291 and computerMove 557-560.
afterPass(g) ==
  LET g1 == gameOverIfNeeded(g)
  IN  IF g1.over THEN g1
      ELSE IF g1.current = WHITE THEN computerMove(g1)
      ELSE g1

\* applyMoveAnimated 240-241, then onCellClick 281-291 (color = BLACK) or
\* computerMove 551-560 (color = WHITE).
afterAnim(g, color) ==
  LET owner == IF color = BLACK THEN "click" ELSE "cpu"
      g1 == [g EXCEPT !.inputLocked = FALSE]
      g2 == gameOverIfNeeded(g1)
      g3 == [g2 EXCEPT !.current = -color]
      g4 == passTurnIfNoMoves(g3, owner, "after")
  IN  IF g2.over THEN g2
      ELSE IF g4.passed THEN g4
      ELSE afterPass(g4)

\* applyMoveAnimated 216-222.
startAnim(g, r, c, color, flips) ==
  [g EXCEPT !.inputLocked = TRUE,
            !.board = [g.board EXCEPT ![r][c] = color],
            !.tasks = @ (+) SetToBag({Task("placed", IF color = BLACK THEN "click" ELSE "cpu",
                                     color, flips, 0, "")})]

\* The globals after a handler, and the description of the step.
Commit(g, e) ==
  /\ board' = g.board
  /\ current' = g.current
  /\ inputLocked' = g.inputLocked
  /\ aiThinking' = g.aiThinking
  /\ lastMoveText' = g.lastMoveText
  /\ tasks' = g.tasks
  /\ ev' = [e EXCEPT !.checked = g.checked, !.over = g.over,
                     !.passed = g.passed, !.started = g.started]

\* computerMove 520-542: the iterative-deepening loop under a deadline that the
\* clock passes after n reads (n = -1: never).  log keeps every iteration's
\* result, the aborted one included.
maxDepthFor(b) ==
  LET cnt   == countPieces(b)
      empty == 64 - (cnt.black + cnt.white)
  IN  IF empty <= 12 THEN 9 ELSE IF empty <= 18 THEN 8 ELSE 7

RECURSIVE deepen(_, _, _, _, _, _)

logEntry(d, res) ==
  [d |-> d, aborted |-> res.aborted, move |-> res.move, score |-> res.score]

\* Lines 538-539 taking the move of an aborted iteration as well.
deepenWithPartial(b, d, maxDepth, bestSoFar, log, res) ==
  IF res.aborted
  THEN [best |-> IF res.move # NoMove THEN res.move ELSE bestSoFar,
        tt |-> res.tt, log |-> Append(log, logEntry(d, res)), tt0 |-> << >>]
  ELSE deepen(b, d + 1, maxDepth,
              IF res.move # NoMove THEN res.move ELSE bestSoFar,
              rest(res), Append(log, logEntry(d, res)))

\* Lines 538-539 for the result res of the iteration at depth d.
deepenWith(b, d, maxDepth, bestSoFar, log, res) ==
  IF res.aborted
  THEN [best |-> bestSoFar, tt |-> res.tt, log |-> Append(log, logEntry(d, res)),
        tt0 |-> << >>]
  ELSE deepen(b, d + 1, maxDepth,
              IF res.move # NoMove THEN res.move ELSE bestSoFar,
              rest(res), Append(log, logEntry(d, res)))

\* The for loop of lines 536-540, from depth d on.
deepen(b, d, maxDepth, bestSoFar, cx, log) ==
  IF d > maxDepth THEN [best |-> bestSoFar, tt |-> cx.tt, log |-> log, tt0 |-> << >>]
  ELSE deepenWith(b, d, maxDepth, bestSoFar, log,
                  minimaxTT(b, WHITE, d, -Infinity, Infinity, cx))

\* A table that is not cleared.
ttKept(tt) == tt

\* TT.clear()
ttClear(tt) == << >>

\* Lines 518-542; tt0 is the table the first iteration starts with.
searchFrom(b, n, tt0) ==
  [deepen(b, 2, maxDepthFor(b), NoMove, Cx(tt0, n), NoLog) EXCEPT !.tt0 = tt0]

\* The search run on the table as it is found.
advancedSearchOnFound(tt, b, n) == searchFrom(b, n, tt)

advancedSearch(tt, b, n) == searchFrom(b, n, ttClear(tt))

\* ---------------------------------------------------------------------------
\* Event handlers
\* ---------------------------------------------------------------------------
Counters(dc, dr, dd) ==
  /\ nClicks' = nClicks + dc
  /\ nRestarts' = nRestarts + dr
  /\ nChanges' = nChanges + dd

\* onCellClick 272-279; a click that fails a guard changes nothing.
Click(r, c) ==
  /\ nClicks < MaxClicks
  /\ ~inputLocked
  /\ current = BLACK
  /\ LET flips == getFlips(board, r, c, BLACK)
     IN  /\ Len(flips) # 0
         /\ Commit(startAnim([Globals EXCEPT !.lastMoveText = <<"you", r, c>>],
                             r, c, BLACK, flips),
                   Ev("click", BLACK, board, [r |-> r, c |-> c, flips |-> flips]))
  /\ Counters(1, 0, 0)
  /\ UNCHANGED <<difficulty, TT>>

\* wireUI 569-572.
DifficultyChange ==
  /\ nChanges < MaxChanges
  /\ difficulty' = IF difficulty = "basic" THEN "advanced" ELSE "basic"
  /\ Commit(IF current = WHITE /\ ~inputLocked THEN computerMove(Globals) ELSE Globals,
            Ev("difficulty", EMPTY, board, NoMove))
  /\ Counters(0, 0, 1)
  /\ UNCHANGED TT

\* wireUI 574 and 576-579: only the rendering changes.
SpeedChange == UNCHANGED vars

ToggleHints == UNCHANGED vars

\* wireUI 564-567: initBoard; the pending timers are not cancelled.
Restart ==
  /\ nRestarts < MaxRestarts
  /\ Commit([Globals EXCEPT !.board = StartBoard, !.current = BLACK,
                            !.inputLocked = FALSE, !.aiThinking = FALSE,
                            !.lastMoveText = << >>],
            Ev("restart", EMPTY, board, NoMove))
  /\ Counters(0, 1, 0)
  /\ UNCHANGED <<difficulty, TT>>

Without(t) == [Globals EXCEPT !.tasks = tasks (-) SetToBag({t})]

Moved(t, t2) == [Globals EXCEPT !.tasks = (tasks (-) SetToBag({t})) (+) SetToBag({t2})]

\* applyMoveAnimated wakes from line 222.
WakePlaced(t) ==
  /\ t.pc = "placed"
  /\ Commit(IF Len(t.flips) = 0 THEN afterAnim(Without(t), t.color)
                ELSE Moved(t, [t EXCEPT !.pc = "flipA", !.i = 1]),
                Ev(IF Len(t.flips) = 0 THEN "moveDone" ELSE "placed", t.color, board, NoMove))
  /\ UNCHANGED <<difficulty, TT, nClicks, nRestarts, nChanges>>

\* applyMoveAnimated wakes from line 232 and turns one disc.
WakeFlipA(t) ==
  /\ t.pc = "flipA"
  /\ LET fr == t.flips[t.i][1]
         fc == t.flips[t.i][2]
         g  == Moved(t, [t EXCEPT !.pc = "flipB"])
     IN  Commit([g EXCEPT !.board = [board EXCEPT ![fr][fc] = t.color]],
                Ev("flip", t.color, board, NoMove))
  /\ UNCHANGED <<difficulty, TT, nClicks, nRestarts, nChanges>>

\* applyMoveAnimated wakes from line 237: next flip, or the move is done.
WakeFlipB(t) ==
  /\ t.pc = "flipB"
  /\ Commit(IF t.i < Len(t.flips) THEN Moved(t, [t EXCEPT !.pc = "flipA", !.i = t.i + 1])
                ELSE afterAnim(Without(t), t.color),
                Ev(IF t.i < Len(t.flips) THEN "flipped" ELSE "moveDone", t.color, board, NoMove))
  /\ UNCHANGED <<difficulty, TT, nClicks, nRestarts, nChanges>>

\* passTurnIfNoMoves wakes from line 266.
WakePass(t) ==
  /\ t.pc = "passWait"
  /\ Commit(IF t.ret = "after" THEN afterPass(Without(t)) ELSE Without(t),
                Ev("passWake", t.color, board, NoMove))
  /\ UNCHANGED <<difficulty, TT, nClicks, nRestarts, nChanges>>

\* computerMove 545-549.
place(g, chosen) ==
  startAnim([g EXCEPT !.lastMoveText = <<"cpu", chosen.r, chosen.c>>,
                      !.aiThinking = FALSE, !.inputLocked = FALSE],
            chosen.r, chosen.c, WHITE, chosen.flips)

\* Lines 542-549 without the fallback of line 542.
AdvancedMoveNoFallback(g, moves, n, s) ==
  /\ TT' = s.tt
  /\ Commit(place(g, s.best),
            [Ev("aiMove", WHITE, board, s.best)
               EXCEPT !.advanced = TRUE, !.n = n, !.log = s.log, !.ttIn = TT,
                      !.tt0 = s.tt0])

\* Lines 542-549 for the outcome s of the advanced search under budget n.
AdvancedMove(g, moves, n, s) ==
  /\ TT' = s.tt
  /\ \E chosen \in (IF s.best # NoMove THEN {s.best} ELSE basicPool(moves)) :
       Commit(place(g, chosen),
              [Ev("aiMove", WHITE, board, chosen)
                 EXCEPT !.advanced = TRUE, !.n = n, !.log = s.log, !.ttIn = TT,
                        !.tt0 = s.tt0])

\* Lines 501-549 for the moves Light has.
AiStep(g, moves, budgets) ==
  IF Len(moves) = 0
  THEN /\ Commit(passTurnIfNoMoves(
                   [g EXCEPT !.aiThinking = FALSE, !.inputLocked = FALSE,
                             !.lastMoveText = <<"pass", WHITE>>,
                             !.current = BLACK], "cpu", "end"),
                 Ev("aiPass", WHITE, board, NoMove))
       /\ TT' = TT
  ELSE IF difficulty = "basic"
  THEN /\ \E chosen \in basicPool(moves) :
            Commit(place(g, chosen), Ev("aiMove", WHITE, board, chosen))
       /\ TT' = TT
  ELSE \E n \in budgets : AdvancedMove(g, moves, n, advancedSearch(TT, board, n))

\* computerMove wakes from line 499 (lines 501-549).  The deadline of the
\* advanced tier expires after n clock reads, n drawn from budgets.
WakeAi(t, budgets) ==
  /\ t.pc = "aiWait"
  /\ AiStep(Without(t), getValidMoves(board, WHITE), budgets)
  /\ UNCHANGED <<difficulty, nClicks, nRestarts, nChanges>>

\* ---------------------------------------------------------------------------
\* The game: the state of the page after one of the lines (Dark to move and
\* nothing pending, or Dark's move just animated and computerMove asleep at
\* line 499), then any interleaving of user events and timer wake-ups.
\* ---------------------------------------------------------------------------
Budgets == {0, MaxNodes}

\* The cells the user clicks: the moves that continue the lines above, and an
\* opening move.
ClickCells == {<<6, 6>>, <<1, 3>>, <<0, 5>>, <<7, 3>>, <<2, 3>>}

Init ==
  \E i \in 1..Len(Lines) :
    /\ board = FromRows(Rows[i])
    /\ lastMoveText = lineText(Lines[i])
    /\ current = lineSide(Lines[i])
    /\ inputLocked = (lineSide(Lines[i]) = WHITE)
    /\ aiThinking = (lineSide(Lines[i]) = WHITE)
    /\ difficulty = "basic"
    /\ TT = << >>
    /\ tasks = IF lineSide(Lines[i]) = WHITE
               THEN SetToBag({Task("aiWait", "cpu", WHITE, << >>, 0, "")})
               ELSE EmptyBag
    /\ ev = Ev("init", EMPTY, StartBoard, NoMove)
    /\ nClicks = 0
    /\ nRestarts = 0
    /\ nChanges = 0

Next ==
  \/ \E rc \in ClickCells : Click(rc[1], rc[2])
  \/ DifficultyChange
  \/ SpeedChange
  \/ ToggleHints
  \/ Restart
  \/ \E t \in BagToSet(tasks) : WakePlaced(t)
  \/ \E t \in BagToSet(tasks) : WakeFlipA(t)
  \/ \E t \in BagToSet(tasks) : WakeFlipB(t)
  \/ \E t \in BagToSet(tasks) : WakePass(t)
  \/ \E t \in BagToSet(tasks) : WakeAi(t, Budgets)

Spec == Init /\ [][Next]_vars

\* ---------------------------------------------------------------------------
\* The lines, replayed: game ev.n has had its first nClicks moves played.
\* Dark plays the line's move if getValidMoves offers it, Light if
\* pickBasicMove can return it.
\* ---------------------------------------------------------------------------
LinesInit ==
  \E i \in 1..Len(AllLines) :
    /\ board = StartBoard
    /\ current = BLACK
    /\ inputLocked = FALSE
    /\ aiThinking = FALSE
    /\ lastMoveText = << >>
    /\ difficulty = "basic"
    /\ TT = << >>
    /\ tasks = EmptyBag
    /\ ev = [Ev("line", EMPTY, StartBoard, NoMove) EXCEPT !.n = i]
    /\ nClicks = 0
    /\ nRestarts = 0
    /\ nChanges = 0

LineMove(moves, rc) ==
  \E m \in (IF current = BLACK THEN Range(moves) ELSE basicPool(moves)) :
    /\ m.r = rc[1]
    /\ m.c = rc[2]
    /\ board' = applyMoveNoAnim(board, m, current)
    /\ lastMoveText' = <<IF current = BLACK THEN "you" ELSE "cpu", m.r, m.c>>

LineStep ==
  /\ ev.kind = "line"
  /\ nClicks < Len(AllLines[ev.n])
  /\ LineMove(getValidMoves(board, current), AllLines[ev.n][nClicks + 1])
  /\ current' = -current
  /\ nClicks' = nClicks + 1
  /\ UNCHANGED <<inputLocked, aiThinking, difficulty, TT, tasks, ev, nRestarts, nChanges>>

\* The position reached is searched with depth 0: line 438 (or 435) scores it.
LineCall ==
  /\ ev.kind = "line"
  /\ ev' = [ev EXCEPT !.kind = "leaf",
                      !.res = minimaxTT(board, current, 0, -Infinity, Infinity, Cx(TT, -1))]
  /\ UNCHANGED <<board, current, inputLocked, aiThinking, lastMoveText, difficulty,
                 TT, tasks, nClicks, nRestarts, nChanges>>

LinesNext == LineStep \/ LineCall

SpecLines == LinesInit /\ [][LinesNext]_vars

\* A line played to its end leads to the position written as its rows.
LinesReachRows ==
  (ev.kind = "line" /\ nClicks = Len(AllLines[ev.n])) => board = FromRows(AllRows[ev.n])

\* ---------------------------------------------------------------------------
\* The rules engine on its own: a position of one of the lines with either
\* side to move, then up to MaxPlies moves, each any move getValidMoves
\* returns for the side to move, applied by applyMoveNoAnim.  nClicks counts
\* the moves made.
\* ---------------------------------------------------------------------------
MaxPlies == 2

RulesInit ==
  \E i \in 1..Len(AllRows) : \E side \in Colors :
    /\ board = FromRows(AllRows[i])
    /\ current = side
    /\ inputLocked = FALSE
    /\ aiThinking = FALSE
    /\ lastMoveText = << >>
    /\ difficulty = "basic"
    /\ TT = << >>
    /\ tasks = EmptyBag
    /\ ev = Ev("rules", EMPTY, StartBoard, NoMove)
    /\ nClicks = 0
    /\ nRestarts = 0
    /\ nChanges = 0

Applied(m, h) ==
  /\ board' = h.out
  /\ ev' = [Ev("applied", current, board, m) EXCEPT !.b1 = h.input]

RuleMove ==
  /\ nClicks < MaxPlies
  /\ \E m \in Range(getValidMoves(board, current)) :
       Applied(m, applyMoveNoAnimHeap(board, m, current))
  /\ current' = -current
  /\ nClicks' = nClicks + 1
  /\ UNCHANGED <<inputLocked, aiThinking, lastMoveText, difficulty, TT, tasks,
                 nRestarts, nChanges>>

SpecRules == RulesInit /\ [][RuleMove]_vars

\* The cell j steps from (r, c) in direction d.
stepFrom(r, c, d, j) == <<r + j * DIRS[d][1], c + j * DIRS[d][2]>>

at(b, p) == IF inBounds(p[1], p[2]) THEN b[p[1]][p[2]] ELSE 2

\* The k cells next to (r, c) in direction d hold the opponent of color and
\* the cell after them holds color.
Bracketed(b, r, c, color, d, k) ==
  /\ \A j \in 1..k : at(b, stepFrom(r, c, d, j)) = -color
  /\ at(b, stepFrom(r, c, d, k + 1)) = color

\* The cells of the bracketed runs around (r, c): on one of the 8 lines from
\* (r, c), in an unbroken run of opponent discs that starts next to (r, c)
\* and is ended by a disc of color.
BracketedCells(b, r, c, color) ==
  UNION {{stepFrom(r, c, t[1], j) : j \in 1..t[2]} :
           t \in {u \in (1..8) \X (1..(SIZE - 2)) : Bracketed(b, r, c, color, u[1], u[2])}}

\* C1: every cell in the flip set of a move returned by getValidMoves lies on
\* one of the 8 lines from the move's cell, holds an opponent disc, and is in
\* an unbroken run of opponent discs that starts next to the move's cell and
\* is ended by a disc of the moving side.
C1_FlipsAreBracketed ==
  \A color \in Colors : \A m \in Range(getValidMoves(board, color)) :
    \A f \in Range(m.flips) :
      /\ board[f[1]][f[2]] = -color
      /\ f \in BracketedCells(board, m.r, m.c, color)

\* A move is on offer whose flip set has runs in two directions, one of them
\* of two discs or more.
C1_Witness ==
  /\ ev.kind = "applied"
  /\ \E m \in Range(getValidMoves(board, current)) :
       \E d1, d2 \in 1..8 :
         /\ d1 # d2
         /\ \E k \in 2..(SIZE - 2) : Bracketed(board, m.r, m.c, current, d1, k)
         /\ \E k \in 1..(SIZE - 2) : Bracketed(board, m.r, m.c, current, d2, k)

MovesAt(moves, p) == {i \in 1..Len(moves) : moves[i].r = p[1] /\ moves[i].c = p[2]}

MovesExact(b, color, moves) ==
  /\ \A p \in Cells :
       Cardinality(MovesAt(moves, p))
         = IF b[p[1]][p[2]] = EMPTY /\ BracketedCells(b, p[1], p[2], color) # {}
           THEN 1 ELSE 0
  /\ \A m \in Range(moves) :
       /\ Range(m.flips) = BracketedCells(b, m.r, m.c, color)
       /\ Len(m.flips) = Cardinality(Range(m.flips))
       /\ Len(m.flips) > 0

\* C2: getValidMoves returns exactly one move for each empty cell around
\* which some run is bracketed and no move for any other cell, and each move
\* carries the complete flip set: every cell of every bracketed run, once.
C2_MovesExactAndComplete ==
  \A color \in Colors : \A moves \in {getValidMoves(board, color)} :
    MovesExact(board, color, moves)

C2_Witness ==
  /\ ev.kind = "applied"
  /\ Len(getValidMoves(board, current)) >= 2
  \* an empty cell next to an opponent disc that brackets nothing is left out
  /\ \E p \in Cells : \E d \in 1..8 :
       /\ board[p[1]][p[2]] = EMPTY
       /\ at(board, stepFrom(p[1], p[2], d, 1)) = -current
       /\ BracketedCells(board, p[1], p[2], current) = {}
  \* a move whose flip set has runs in the last direction and in another
  /\ \E m \in Range(getValidMoves(board, current)) :
       /\ \E k \in 1..(SIZE - 2) : Bracketed(board, m.r, m.c, current, 8, k)
       /\ \E d \in 1..7 : \E k \in 1..(SIZE - 2) : Bracketed(board, m.r, m.c, current, d, k)

Touched(m) == {<<m.r, m.c>>} \cup Range(m.flips)

Empties(b) == Cardinality({p \in Cells : b[p[1]][p[2]] = EMPTY})

\* C3: applyMoveNoAnim leaves its input board unchanged and returns a board
\* that differs from it exactly at the target cell and the flip-set cells,
\* which all hold the moving side; the three counts sum to 64, one empty cell
\* less, 1 + |flips| discs more for the mover, |flips| less for the opponent.
C3_ApplyFrame ==
  ev.kind = "applied" =>
    /\ ev.b1 = ev.b0
    /\ \A p \in Cells : (board[p[1]][p[2]] # ev.b0[p[1]][p[2]]) <=> p \in Touched(ev.chosen)
    /\ \A p \in Touched(ev.chosen) : board[p[1]][p[2]] = ev.color
    /\ countPieces(board).black + countPieces(board).white + Empties(board) = SIZE * SIZE
    /\ Empties(board) = Empties(ev.b0) - 1
    /\ IF ev.color = BLACK
       THEN /\ countPieces(board).black = countPieces(ev.b0).black + 1 + Len(ev.chosen.flips)
            /\ countPieces(board).white = countPieces(ev.b0).white - Len(ev.chosen.flips)
       ELSE /\ countPieces(board).white = countPieces(ev.b0).white + 1 + Len(ev.chosen.flips)
            /\ countPieces(board).black = countPieces(ev.b0).black - Len(ev.chosen.flips)

C3_Witness ==
  /\ ev.kind = "applied"
  /\ Len(ev.chosen.flips) >= 3
  /\ board # ev.b0
  /\ ev.b1 = ev.b0

\* ---------------------------------------------------------------------------
\* Properties of the game loop (Spec)
\* ---------------------------------------------------------------------------
Immobile(b, color) ==
  \A p \in Cells : b[p[1]][p[2]] = EMPTY => BracketedCells(b, p[1], p[2], color) = {}

BothImmobile(b) == Immobile(b, BLACK) /\ Immobile(b, WHITE)

\* C4: gameOverIfNeeded returns true, and minimaxTT treats a node as terminal,
\* if and only if neither Dark nor Light has a legal move on the board at
\* that moment, whether or not empty cells remain.
C4_OverIffBothImmobile ==
  ev.checked =>
    /\ ev.over <=> BothImmobile(board)
    /\ \A color \in Colors :
         (minimaxTT(board, color, 0, -Infinity, Infinity, Cx(TT, -1)).via = "terminal")
           <=> BothImmobile(board)

\* The game has just been declared over on a board with empty cells.
C4_Witness ==
  /\ ev.checked
  /\ ev.over
  /\ Empties(board) > 0
  /\ minimaxTT(board, WHITE, 0, -Infinity, Infinity, Cx(TT, -1)).via = "terminal"

\* C5: when a move has just been completed and the side due to move next has
\* no legal move while the mover has one, the game is not declared over and
\* the turn passes back to the mover; and when the pass announced after a
\* Light move ends with Light to move, a computerMove is in flight without
\* any click.
C5_PassKeepsGameGoing ==
  /\ (ev.kind = "moveDone" /\ Immobile(board, -ev.color) /\ ~Immobile(board, ev.color))
       => (~ev.over /\ ev.passed /\ current = ev.color
             /\ lastMoveText = <<"pass", -ev.color>>)
  /\ (ev.kind = "passWake" /\ ev.checked /\ ~ev.over /\ ev.color = BLACK /\ current = WHITE)
       => \E t \in BagToSet(tasks) : t.owner = "cpu"

\* Dark could not answer Light's move, the pass has been shown, and
\* computerMove has started again.
C5_Witness ==
  /\ ev.kind = "passWake"
  /\ ev.checked
  /\ ev.color = BLACK
  /\ current = WHITE
  /\ ev.started
  /\ Immobile(board, BLACK)

\* The computerMove invocations that have passed the guards of lines 491-492
\* and have not returned.
CpuInFlight == BagCardinality([t \in {u \in BagToSet(tasks) : u.owner = "cpu"} |-> tasks[t]])

\* A move of the human is being placed or animated.
HumanAnimating ==
  \E t \in BagToSet(tasks) : t.owner = "click" /\ t.pc \in {"placed", "flipA", "flipB"}

\* C9: at most one computerMove is in flight, and none while a human move is
\* being placed or animated.
C9_OneComputerMove ==
  /\ CpuInFlight <= 1
  /\ ~(CpuInFlight >= 1 /\ HumanAnimating)

\* C10: every change of the real board takes it in one step from a position
\* P to applyMoveNoAnim(P, m, side) for a legal move m of the side to move,
\* or resets it to the starting position.
C10_BoardChangesByWholeMoves ==
  [][board' # board =>
       \/ board' = StartBoard
       \/ \E m \in Range(getValidMoves(board, current)) :
            board' = applyMoveNoAnim(board, m, current)]_vars

\* ---------------------------------------------------------------------------
\* The advanced tier in the endgame: Dark's last move of an endgame line has
\* just been animated and computerMove is asleep at line 499; the game then
\* runs on the timers alone, the deadline of every search expiring after any
\* of SearchBudgets clock reads.
\* ---------------------------------------------------------------------------
MaxBudget == 24

SearchBudgets == -1..MaxBudget

SearchInit ==
  \E i \in 1..Len(EndRows) :
    /\ board = FromRows(EndRows[i])
    /\ lastMoveText = lineText(EndLines[i])
    /\ current = WHITE
    /\ inputLocked = TRUE
    /\ aiThinking = TRUE
    /\ difficulty = "advanced"
    /\ TT = << >>
    /\ tasks = SetToBag({Task("aiWait", "cpu", WHITE, << >>, 0, "")})
    /\ ev = Ev("init", EMPTY, StartBoard, NoMove)
    /\ nClicks = 0
    /\ nRestarts = 0
    /\ nChanges = 0

SearchNext ==
  \/ \E t \in BagToSet(tasks) : WakePlaced(t)
  \/ \E t \in BagToSet(tasks) : WakeFlipA(t)
  \/ \E t \in BagToSet(tasks) : WakeFlipB(t)
  \/ \E t \in BagToSet(tasks) : WakePass(t)
  \/ \E t \in BagToSet(tasks) : WakeAi(t, SearchBudgets)

SpecSearch == SearchInit /\ [][SearchNext]_vars

\* ---------------------------------------------------------------------------
\* Properties of the advanced tier (SpecSearch)
\* ---------------------------------------------------------------------------
AdvancedChoice == ev.kind = "aiMove" /\ ev.advanced

\* C6: a move chosen by the advanced tier is not null and is one of
\* getValidMoves(board, Light) for the board at the time of choosing, however
\* the deadline expires, a deadline already passed at the first clock read
\* included.
C6_ChoiceIsLegal ==
  AdvancedChoice =>
    /\ ev.chosen # NoMove
    /\ ev.chosen \in Range(getValidMoves(ev.b0, WHITE))

\* The deadline had passed before the first node: no iteration completed.
C6_Witness ==
  /\ AdvancedChoice
  /\ ev.n = 0
  /\ Len(ev.log) = 1
  /\ ev.log[1].aborted
  /\ Len(getValidMoves(ev.b0, WHITE)) >= 2

Completed(log) == {i \in 1..Len(log) : ~log[i].aborted}

Deepest(log) == CHOOSE i \in Completed(log) : \A j \in Completed(log) : j <= i

\* C8: the iterations run at depth 2, 3, ... up to the cap, only the last one
\* can be aborted, and the move chosen is the move of the deepest iteration
\* that completed, or a move of pickBasicMove when none completed.
C8_DeepestCompleted ==
  AdvancedChoice =>
    /\ Len(ev.log) >= 1
    /\ \A i \in 1..Len(ev.log) : ev.log[i].d = i + 1
    /\ \A i \in 1..(Len(ev.log) - 1) : ~ev.log[i].aborted
    /\ ev.log[Len(ev.log)].aborted \/ Len(ev.log) + 1 = maxDepthFor(ev.b0)
    /\ IF Completed(ev.log) = {}
       THEN ev.chosen \in basicPool(getValidMoves(ev.b0, WHITE))
       ELSE ev.chosen = ev.log[Deepest(ev.log)].move

\* The aborted iteration had a move in hand that differs from the move of the
\* deepest completed iteration.
C8_Witness ==
  /\ AdvancedChoice
  /\ Len(ev.log) >= 2
  /\ ev.log[Len(ev.log)].aborted
  /\ ev.log[Len(ev.log)].move # NoMove
  /\ ev.log[Len(ev.log)].move # ev.chosen

\* C11: every top-level advanced search starts with an empty table, whatever
\* an earlier search left in it.
C11_SearchStartsClean == AdvancedChoice => ev.tt0 = << >>

\* The search before had left entries in the table.
C11_Witness ==
  /\ AdvancedChoice
  /\ ev.ttIn # << >>
  /\ ev.tt0 = << >>
  /\ TT # << >>

\* Plain minimax without pruning and without a table: Light maximizes, Dark
\* minimizes, a pass costs one depth, a position where neither side can move
\* scores terminalScore and a depth-0 position scores evaluateBoard.
RECURSIVE plainMinimax(_, _, _)

SetMax(S) == CHOOSE x \in S : \A y \in S : y <= x

SetMin(S) == CHOOSE x \in S : \A y \in S : x <= y

plainChildren(b, color, depth, moves) ==
  {plainMinimax(applyMoveNoAnim(b, moves[i], color), -color, depth - 1) : i \in 1..Len(moves)}

plainNode(b, color, depth, moves, oppMoves) ==
  IF Len(moves) = 0 /\ Len(oppMoves) = 0 THEN terminalScore(b)
  ELSE IF depth = 0 THEN evaluateBoard(b)
  ELSE IF Len(moves) = 0 THEN plainMinimax(b, -color, depth - 1)
  ELSE IF color = WHITE THEN SetMax(plainChildren(b, color, depth, moves))
  ELSE SetMin(plainChildren(b, color, depth, moves))

plainMinimax(b, color, depth) ==
  plainNode(b, color, depth, getValidMoves(b, color), getValidMoves(b, -color))

\* C7: with a deadline that is never reached, the score of every iteration of
\* the iterative-deepening loop equals the score of plain minimax at the same
\* depth on the same board for Light.
C7_IterationEqualsMinimax ==
  (AdvancedChoice /\ ev.n = -1) =>
    \A i \in 1..Len(ev.log) : ev.log[i].score = plainMinimax(ev.b0, WHITE, ev.log[i].d)

\* ---------------------------------------------------------------------------
\* Properties of the basic tier (SpecRules: the legal moves of either side)
\* ---------------------------------------------------------------------------
MostFlips(moves) ==
  {m \in Range(moves) : \A m2 \in Range(moves) : Len(m2.flips) <= Len(m.flips)}

\* C12: for a non-empty list of legal moves, the moves pickBasicMove can
\* return are exactly the moves of the list with the maximum flip count; a
\* move that flips strictly more than all others is the only one returned.
C12_BasicPicksMostFlips ==
  \A color \in Colors : \A moves \in {getValidMoves(board, color)} :
    Len(moves) > 0 =>
      /\ basicPool(moves) = MostFlips(moves)
      /\ \A m \in Range(moves) :
           (\A m2 \in Range(moves) \ {m} : Len(m2.flips) < Len(m.flips))
             => basicPool(moves) = {m}

\* Three or more moves, two of them tied for the most flips and one flipping
\* fewer; and for the other side one move that flips strictly more than the
\* rest.
C12_Witness ==
  /\ ev.kind = "applied"
  /\ Len(getValidMoves(board, current)) >= 3
  /\ Cardinality(basicPool(getValidMoves(board, current))) >= 2
  /\ basicPool(getValidMoves(board, current)) # Range(getValidMoves(board, current))
  /\ Len(getValidMoves(board, -current)) >= 2
  /\ Cardinality(basicPool(getValidMoves(board, -current))) = 1

\* The scores of the iterations of a search.
Scores(log) == [i \in 1..Len(log) |-> log[i].score]

ProbeRange == -1..SIZE

FlipsInit ==
  \E i \in 1..Len(AllRows) :
    /\ board = FromRows(AllRows[i])
    /\ current = BLACK
    /\ inputLocked = FALSE
    /\ aiThinking = FALSE
    /\ lastMoveText = << >>
    /\ difficulty = "basic"
    /\ TT = << >>
    /\ tasks = EmptyBag
    /\ ev = Ev("rules", EMPTY, StartBoard, NoMove)
    /\ nClicks = 0
    /\ nRestarts = 0
    /\ nChanges = 0

Asked(r, c, color, res) ==
  ev' = [Ev("flips", color, board, [r |-> r, c |-> c, flips |-> res.value])
           EXCEPT !.thrown = res.thrown]

FlipsProbe ==
  /\ \E r, c \in ProbeRange : \E color \in Colors :
       Asked(r, c, color, getFlipsAnywhere(board, r, c, color))
  /\ UNCHANGED <<board, current, inputLocked, aiThinking, lastMoveText, difficulty,
                 TT, tasks, nClicks, nRestarts, nChanges>>

SpecFlips == FlipsInit /\ [][FlipsProbe]_vars

\* C14: asking for the flip set of a cell outside the board fails; no flip
\* set, empty or not, is returned for it.
C14_OutOfBoundsFails ==
  (ev.kind = "flips" /\ ~inBounds(ev.chosen.r, ev.chosen.c)) => ev.thrown # ""

\* On the board the two agree.
FlipsAgreeOnBoard ==
  (ev.kind = "flips" /\ inBounds(ev.chosen.r, ev.chosen.c)) =>
    (ev.thrown = "" /\ ev.chosen.flips = getFlips(ev.b0, ev.chosen.r, ev.chosen.c, ev.color))

\* ---------------------------------------------------------------------------
\* The nodes of the search.  A state is a node (board, current) of the game
\* tree below a position the computer searches from; NodeMove and NodePass
\* step to a child the way lines 465-466 and 443 do, and NodeCall is one call
\* of minimaxTT on the node, with the table empty as line 518 leaves it.
\* ---------------------------------------------------------------------------
MaxDepthAsked == 6
MaxReads == 4

DepthsAsked == 0..MaxDepthAsked
ReadsAsked == -1..MaxReads
Windows == {<<-Infinity, Infinity>>, <<-500, 500>>}

NodesInit ==
  \E i \in 1..Len(EndRows) :
    /\ board = FromRows(EndRows[i])
    /\ lastMoveText = lineText(EndLines[i])
    /\ current = WHITE
    /\ inputLocked = TRUE
    /\ aiThinking = TRUE
    /\ difficulty = "advanced"
    /\ TT = << >>
    /\ tasks = EmptyBag
    /\ ev = Ev("init", EMPTY, StartBoard, NoMove)
    /\ nClicks = 0
    /\ nRestarts = 0
    /\ nChanges = 0

NodeFrame ==
  UNCHANGED <<inputLocked, aiThinking, lastMoveText, difficulty, tasks,
              nClicks, nRestarts, nChanges>>

\* Lines 465-466: the child reached by a legal move.
NodeMove ==
  /\ ev.kind # "call"
  /\ \E m \in Range(getValidMoves(board, current)) :
       /\ board' = applyMoveNoAnim(board, m, current)
       /\ current' = -current
       /\ ev' = Ev("node", current, board, m)
  /\ UNCHANGED TT
  /\ NodeFrame

\* Line 443: the child of a node whose side cannot move.
NodePass ==
  /\ ev.kind # "call"
  /\ Len(getValidMoves(board, current)) = 0
  /\ Len(getValidMoves(board, -current)) > 0
  /\ current' = -current
  /\ ev' = Ev("pass", current, board, NoMove)
  /\ UNCHANGED <<board, TT>>
  /\ NodeFrame

\* minimaxTT(board, current, depth, alpha, beta, deadline)
NodeCall(depth, w, n) ==
  /\ ev.kind # "call"
  /\ \E res \in {minimaxTT(board, current, depth, w[1], w[2], Cx(TT, n))} :
       /\ ev' = [Ev("call", current, board, res.move) EXCEPT
                  !.call = [depth |-> depth, alpha |-> w[1], beta |-> w[2], n |-> n],
                  !.ttIn = TT,
                  !.res = res]
       /\ TT' = res.tt
  /\ UNCHANGED <<board, current>>
  /\ NodeFrame

NodesNext ==
  \/ NodeMove
  \/ NodePass
  \/ \E depth \in DepthsAsked, w \in Windows, n \in ReadsAsked : NodeCall(depth, w, n)

SpecNodes == NodesInit /\ [][NodesNext]_vars

\* The arguments and the result of the call that led to the state.
Called == ev.kind = "call"

\* C18: a call on a node where neither side can move, made before the
\* deadline, returns (Light discs - Dark discs) * 10000 with no move and
\* aborted = false through the return of line 435, at every depth asked for,
\* 0 included; the table is left as it was.
C18_TerminalScore ==
  (Called /\ BothImmobile(board) /\ ev.call.n # 0) =>
    /\ ev.res.score = (countPieces(board).white - countPieces(board).black) * 10000
    /\ ev.res.move = NoMove
    /\ ~ev.res.aborted
    /\ ev.res.via = "terminal"
    /\ ev.res.tt = ev.ttIn

C18_Witness ==
  /\ Called
  /\ BothImmobile(board)
  /\ ev.call.n # 0
  /\ ev.call.depth = 0
  /\ ev.res.score = (countPieces(board).white - countPieces(board).black) * 10000
  /\ ev.res.score # evaluateBoard(board)
  /\ countPieces(board).white + countPieces(board).black < 64

\* The side to move at the node cannot move and the other side can.
PassNode == Immobile(board, current) /\ ~Immobile(board, -current)

\* C17: at a node where the side to move has no move and the other side has
\* one, a call with depth > 0 made before the deadline returns exactly what
\* the call for the other side on the same board with depth - 1, the same
\* window and the clock read once more returns: score, move, aborted flag,
\* and the table with the entries read on the way.  Checked for the call
\* that was made and, on the table it left, for a second call with the same
\* window and deadline at every depth.
C17_PassPropagates ==
  (PassNode /\ Called /\ ev.call.n # 0) =>
    /\ ev.call.depth > 0 =>
          ev.res = minimaxTT(board, -current, ev.call.depth - 1, ev.call.alpha,
                             ev.call.beta, tick(Cx(ev.ttIn, ev.call.n)))
    /\ \A depth \in 1..MaxDepthAsked :
          minimaxTT(board, current, depth, ev.call.alpha, ev.call.beta,
                    Cx(TT, ev.call.n))
            = minimaxTT(board, -current, depth - 1, ev.call.alpha, ev.call.beta,
                        tick(Cx(TT, ev.call.n)))

C17_Witness ==
  /\ PassNode
  /\ Called
  /\ ev.call.depth = 2
  /\ ev.call.n = -1
  /\ ev.res.move # NoMove
  /\ hashBoard(board) \in DOMAIN TT
  /\ TT[hashBoard(board)].depth = 1
  /\ minimaxTT(board, current, 2, -Infinity, Infinity, Cx(TT, -1)).used # << >>

\* C16: a call returns aborted = true exactly when one of its nodes found the
\* deadline passed; no call of minimaxTT is made after that first observation
\* (no sibling is searched), the table is left as that node found it (no
\* frame on the way up stores an entry) and the clock is not read again; a
\* call whose first child finds the deadline passed, through a move or
\* through a pass, returns aborted with no move.
C16_AbortUnwinds ==
  Called =>
    /\ ev.res.aborted <=> ev.res.seen # << >>
    /\ ev.res.aborted =>
          /\ Len(ev.res.seen) = 1
          /\ ev.res.tt = ev.res.seen[1]
          /\ ev.res.n = 0
          /\ ev.res.via \in {"abort", "childAbort"}
    /\ (ev.call.n = 1 /\ ev.call.depth > 0 /\ ~BothImmobile(board)) =>
          ev.res.aborted /\ ev.res.move = NoMove
    /\ ev.call.n = 0 => ev.res.aborted /\ ev.res.via = "abort"

C16_Witness ==
  /\ Called
  /\ ev.res.aborted
  /\ ev.res.via = "childAbort"
  /\ ev.res.move # NoMove
  /\ ev.res.tt # << >>
  /\ hashBoard(board) \notin DOMAIN ev.res.tt

\* The entry u.e, accepted by the node (u.b, u.color), bounds the node's
\* minimax value at the entry's depth the way its flag says.
ValidBound(u) ==
  \A v \in {plainMinimax(u.b, u.color, u.e.depth)} :
    /\ u.e.flag = EXACT => u.e.score = v
    /\ u.e.flag = LOWER => u.e.score <= v
    /\ u.e.flag = UPPER => u.e.score >= v

\* C15: every table entry that a node of a search read and used is a valid
\* bound for that node (Exact: equal to the node's minimax value at the
\* entry's depth, LowerBound: at most that value, UpperBound: at least), and
\* the entry a completed node stores is flagged UpperBound when its score is
\* <= the alpha it was called with, LowerBound when >= the beta it was
\* called with, Exact otherwise.
C15_EntriesAreValidBounds ==
  (Called /\ ev.call.n = -1) =>
    /\ \A i \in 1..Len(ev.res.used) : ValidBound(ev.res.used[i])
    /\ ev.res.via = "loop" =>
          /\ hashBoard(board) \in DOMAIN TT
          /\ TT[hashBoard(board)] =
               [depth |-> ev.call.depth, score |-> ev.res.score,
                flag |-> IF ev.res.score <= ev.call.alpha THEN UPPER
                         ELSE IF ev.res.score >= ev.call.beta THEN LOWER
                         ELSE EXACT,
                bestMove |-> ev.res.move]

\* The part of C15 about the flag of a stored entry, taken alone.
StoredFlagFollowsWindow ==
  (Called /\ ev.call.n = -1 /\ ev.res.via = "loop") =>
    /\ hashBoard(board) \in DOMAIN TT
    /\ TT[hashBoard(board)].flag =
         (IF ev.res.score <= ev.call.alpha THEN UPPER
          ELSE IF ev.res.score >= ev.call.beta THEN LOWER
          ELSE EXACT)

\* The weight orderMoves sorts the moves that are not corners by.
orderWeight(m) == POS_W[m.r + 1][m.c + 1] + 2 * Len(m.flips)

\* ordered holds the moves of the list moves, each once, corners first and
\* the others by descending weight.
OrderedRight(moves, ordered) ==
  /\ Len(ordered) = Len(moves)
  /\ Range(ordered) = Range(moves)
  /\ \A i, j \in 1..Len(ordered) :
       i < j =>
         /\ isCorner(ordered[j]) => isCorner(ordered[i])
         /\ (~isCorner(ordered[i]) /\ ~isCorner(ordered[j])) =>
               orderWeight(ordered[i]) >= orderWeight(ordered[j])

\* The score of the call that was made, had every node expanded its moves in
\* the order named.
ScoreInOrder(order) ==
  minimaxTT(board, current, ev.call.depth, ev.call.alpha, ev.call.beta,
            [Cx(ev.ttIn, ev.call.n) EXCEPT !.order = order]).score

\* The sorting part of C19, taken alone.
OrderMovesSorts ==
  \A color \in Colors :
    \A moves \in {getValidMoves(board, color)} : OrderedRight(moves, orderMoves(moves))

\* C19: orderMoves returns the moves it was given, each once, corners first
\* and the others by descending positional weight + 2 x flips; and with a
\* deadline that is never reached the score of a call on the full window is
\* the score the same call returns when every node expands its moves in
\* another order (the reverse of that order, or the order of getValidMoves).
C19_OrderKeepsScore ==
  /\ OrderMovesSorts
  /\ (Called /\ ev.call.n = -1 /\ ev.call.alpha = -Infinity /\ ev.call.beta = Infinity) =>
        /\ ev.res.score = ScoreInOrder("reversed")
        /\ ev.res.score = ScoreInOrder("given")

\* ---------------------------------------------------------------------------
\* The evaluator (SpecLines: every position of the lines)
\* ---------------------------------------------------------------------------
RECURSIVE SumFn(_)
SumFn(f) ==
  IF DOMAIN f = {} THEN 0
  ELSE LET x == CHOOSE y \in DOMAIN f : TRUE
       IN  f[x] + SumFn([y \in DOMAIN f \ {x} |-> f[y]])

Dist(a, b) == IF a > b THEN a - b ELSE b - a

DiscsOf(b, color) == {p \in Cells : b[p[1]][p[2]] = color}

\* q is one of the up to 8 cells around p.
Near(p, q) == p # q /\ Dist(p[1], q[1]) <= 1 /\ Dist(p[2], q[2]) <= 1

FrontierOf(b, color) ==
  {p \in DiscsOf(b, color) : \E q \in DiscsOf(b, EMPTY) : Near(p, q)}

LegalCells(b, color) ==
  {p \in DiscsOf(b, EMPTY) : BracketedCells(b, p[1], p[2], color) # {}}

CornerCells == {p \in Cells : p[1] \in {0, SIZE - 1} /\ p[2] \in {0, SIZE - 1}}

\* The X-square and the two C-squares of the corner k.
XOf(k) == {p \in Cells : Dist(p[1], k[1]) = 1 /\ Dist(p[2], k[2]) = 1}
COf(k) == {p \in Cells : Near(p, k) /\ (p[1] = k[1] \/ p[2] = k[2])}

\* What the discs of color on X- and C-squares of empty corners cost.
Penalty(b, color) ==
  SumFn([k \in CornerCells \cap DiscsOf(b, EMPTY) |->
           80 * Cardinality(XOf(k) \cap DiscsOf(b, color))
           + 30 * Cardinality(COf(k) \cap DiscsOf(b, color))])

PositionalOf(b, color) ==
  SumFn([p \in DiscsOf(b, color) |-> POS_W[p[1] + 1][p[2] + 1]])

DiscWeight(b) ==
  IF Cardinality(DiscsOf(b, EMPTY)) <= 16 THEN 14
  ELSE IF Cardinality(DiscsOf(b, EMPTY)) <= 28 THEN 6
  ELSE 2

Light(F(_)) == F(WHITE) - F(BLACK)

SixTerms(b) ==
  Light(LAMBDA color : PositionalOf(b, color))
  + 10 * Light(LAMBDA color : Cardinality(LegalCells(b, color)))
  - 6 * Light(LAMBDA color : Cardinality(FrontierOf(b, color)))
  + 120 * Light(LAMBDA color : Cardinality(CornerCells \cap DiscsOf(b, color)))
  - Light(LAMBDA color : Penalty(b, color))
  + DiscWeight(b) * Light(LAMBDA color : Cardinality(DiscsOf(b, color)))

\* C20: on every board evaluateBoard returns the sum of the six terms,
\* Light-positive: positional weights, 10 x the difference of the numbers of
\* legal moves, -6 x the difference of the numbers of frontier discs, 120 per
\* corner held, 80 per X-square and 30 per C-square held next to an empty
\* corner counted against the holder, and the disc difference weighted 14
\* (at most 16 cells empty), 6 (at most 28) or 2; a search of depth 0 that
\* returns through line 438 returns that sum.
C20_EvaluateIsSixTerms ==
  \A six \in {SixTerms(board)} :
    /\ evaluateBoard(board) = six
    /\ (ev.kind = "leaf" /\ ev.res.via = "leaf") => ev.res.score = six

C20_Witness ==
  /\ ev.kind = "leaf"
  /\ ev.res.via = "leaf"
  /\ ev.res.score = SixTerms(board)
  /\ DiscWeight(board) = 6
  /\ \E k \in CornerCells :
       board[k[1]][k[2]] = EMPTY /\ XOf(k) \cap DiscsOf(board, EMPTY) = {}
  /\ \E k \in CornerCells :
       /\ board[k[1]][k[2]] # EMPTY
       /\ XOf(k) \cap DiscsOf(board, EMPTY) = {}
       /\ COf(k) \cap DiscsOf(board, EMPTY) # COf(k)

\* ---------------------------------------------------------------------------
\* The moves the search returns (SpecNodes)
\* ---------------------------------------------------------------------------
\* m is a move of color on b as getValidMoves would list it.
LegalFor(b, color, m) ==
  /\ b[m.r][m.c] = EMPTY
  /\ m.flips # << >>
  /\ m.flips = getFlips(b, m.r, m.c, color)

\* The moves returned from a table entry are legal for the node that read it.
EntryMovesLegal ==
  \A i \in 1..Len(ev.res.used) :
    \A u \in {ev.res.used[i]} :
      (u.ret /\ u.e.bestMove # NoMove) => LegalFor(u.b, u.color, u.e.bestMove)

\* The part of C21 about the move loop of the node called, taken alone: a
\* node whose side can move returns one of its own moves, and a pass node
\* returns the move of the other side (line 443).
LoopMoveLegal ==
  (Called /\ ev.res.move # NoMove) =>
    LegalFor(board, IF PassNode THEN -current ELSE current, ev.res.move)

\* C21: a move that a node of a search returns, from its own move loop or
\* from a table entry, is a legal move of the node's side on the node's
\* board: the cell is empty and the flip set is getFlips for that side.
C21_ReturnedMoveIsLegal ==
  Called =>
    /\ ev.res.move # NoMove => LegalFor(board, current, ev.res.move)
    /\ EntryMovesLegal

\* ---------------------------------------------------------------------------
\* Restart and the end of the game (Spec)
\* ---------------------------------------------------------------------------
\* The state initBoard leaves: the starting position, Dark to move, input
\* unlocked.
Fresh == board = StartBoard /\ current = BLACK /\ ~inputLocked

\* C22: a restart click leaves the starting position with Dark to move and
\* input unlocked, and from then on only a move of the human changes that:
\* no timer of the game before the restart places or flips a disc, locks the
\* input or changes the side to move.
C22_RestartStaysFresh ==
  [][/\ nRestarts' = nRestarts + 1 => Fresh'
     /\ (nRestarts >= 1 /\ Fresh /\ nClicks' = nClicks) => Fresh']_vars

\* The first half of C22, taken alone: the restart click itself.
RestartResets == [][nRestarts' = nRestarts + 1 => Fresh']_vars

\* gameOverIfNeeded has declared the game over and its message is on show.
DeclaredOver == lastMoveText # << >> /\ lastMoveText[1] = "over"

\* C24: in a game without a restart click, once the game has been declared
\* over no step changes the board, the side to move or the result message.
C24_OverIsFinal ==
  [][(DeclaredOver /\ nRestarts' = 0) =>
       UNCHANGED <<board, current, lastMoveText>>]_vars

\* C24 for the games that end on a move of Dark, taken alone.
OverAfterDarkIsFinal ==
  [][(DeclaredOver /\ current = BLACK /\ nRestarts' = 0) =>
       UNCHANGED <<board, current, lastMoveText>>]_vars

\* ---------------------------------------------------------------------------
\* The game without restart clicks, every timer firing in the end
\* (setTimeout of line 213 always resolves).  The fairness condition is
\* WF_vars(Timers) written out: a timer step is possible exactly when a
\* handler is suspended, so either infinitely often no handler is suspended
\* or infinitely often a timer fires.
\* ---------------------------------------------------------------------------
Timers ==
  \/ \E t \in BagToSet(tasks) : WakePlaced(t)
  \/ \E t \in BagToSet(tasks) : WakeFlipA(t)
  \/ \E t \in BagToSet(tasks) : WakeFlipB(t)
  \/ \E t \in BagToSet(tasks) : WakePass(t)
  \/ \E t \in BagToSet(tasks) : WakeAi(t, Budgets)

LiveNext ==
  \/ \E rc \in ClickCells : Click(rc[1], rc[2])
  \/ DifficultyChange
  \/ SpeedChange
  \/ ToggleHints
  \/ Timers

TimersPending == tasks # EmptyBag

TimersFair == []<>(~TimersPending) \/ []<><<Timers>>_vars

SpecLive == Init /\ [][LiveNext]_vars /\ TimersFair

\* It is Light's turn, Light has a legal move and no move of Light is being
\* animated.
LightToPlay ==
  /\ current = WHITE
  /\ Len(getValidMoves(board, WHITE)) > 0
  /\ ~\E t \in BagToSet(tasks) : t.owner = "cpu" /\ t.pc \in {"placed", "flipA", "flipB"}

\* A move of Light has just been committed to the board (lines 545-549).
LightCommitted == ev.kind = "aiMove"

\* A computerMove is in flight, or a handler asleep in passTurnIfNoMoves will
\* go on to lines 289-291 / 558-560.
CpuComing ==
  \/ CpuInFlight >= 1
  \/ \E t \in BagToSet(tasks) : t.pc = "passWait" /\ t.ret = "after"

\* C23: in a game without restart clicks whose timers all fire, whenever it
\* is Light's turn and Light has a legal move, a move of Light is eventually
\* committed; a set input lock is eventually released; and whenever it is
\* Light's turn with a legal move, a computerMove is in flight or about to
\* be started.
C23_LightMovesEventually ==
  /\ LightToPlay ~> LightCommitted
  /\ inputLocked ~> ~inputLocked
  /\ [](LightToPlay => CpuComing)

C23_Witness ==
  /\ LightCommitted
  /\ nClicks = 1
  /\ nChanges = 1
  /\ ev.b0 # StartBoard
  /\ inputLocked

====
